---- MODULE Spec2Model ----
(***************************************************************************)
(* Freshness Predictor backend (src/backend/main.py): the lifespan hook    *)
(* that loads the Keras model, the three request handlers and the          *)
(* clamping / rounding / hashing arithmetic of /predict.                   *)
(*                                                                         *)
(* Floats are kept in thousandths of a day ("milli"), tagged with their    *)
(* kind so that NaN and the infinities keep Python's comparison rules.     *)
(* A rounded days_remaining is kept in hundredths of a day.                *)
(***************************************************************************)
EXTENDS Integers, Sequences, FiniteSets, TLC

\* ------------------------------------------------------------------ bounds
\* number of request slots that may be in flight or answered at once
MaxReq == 2

Reqs == 1..MaxReq

\* ------------------------------------------------------- program constants
\* IMG_SIZE = (224, 224)
IMG_SIZE == <<224, 224>>

\* ---------------------------------------------------------------- strings
\* a Python str is a sequence of characters; None is the absent value
Str(s) == [none |-> FALSE, str |-> s]
NoneStr == [none |-> TRUE, str |-> <<>>]

\* str.startswith(prefix)
startswith(s, prefix) ==
    /\ Len(s) >= Len(prefix)
    /\ SubSeq(s, 1, Len(prefix)) = prefix

ImagePrefix == <<"i", "m", "a", "g", "e", "/">>

CT_png   == Str(<<"i", "m", "a", "g", "e", "/", "p", "n", "g">>)
CT_jpeg  == Str(<<"i", "m", "a", "g", "e", "/", "j", "p", "e", "g">>)
CT_text  == Str(<<"t", "e", "x", "t", "/", "p", "l", "a", "i", "n">>)
CT_image == Str(<<"i", "m", "a", "g", "e">>)

\* the declared content types a multipart part can carry; a part without a
\* Content-Type header has content_type None
ContentTypes == {CT_png, CT_jpeg, CT_text, CT_image, NoneStr}

\* ------------------------------------------------------------ byte content
\* a 1x1 GIF (42 bytes)
Gif1 == <<71, 73, 70, 56, 57, 97, 1, 0, 1, 0, 128, 0, 0, 0, 0, 0, 255, 255,
          255, 33, 249, 4, 1, 0, 0, 0, 0, 44, 0, 0, 0, 0, 1, 0, 1, 0, 0, 2,
          1, 68, 0, 59>>
\* another 1x1 GIF (37 bytes)
Gif2 == <<71, 73, 70, 56, 57, 97, 1, 0, 1, 0, 0, 0, 0, 33, 249, 4, 1, 10, 0,
          1, 0, 44, 0, 0, 0, 0, 1, 0, 1, 0, 0, 2, 2, 76, 1, 0, 59>>
\* Gif1 cut before its pixel data: the header parses, the pixels do not load
Truncated == SubSeq(Gif1, 1, 36)
\* b"hello": not an image at all
Text == <<104, 101, 108, 108, 111>>

Contents == {Gif1, Gif2, Truncated, Text}

\* hashlib.md5(contents).hexdigest(): the 32 hex digits of the MD5 digest
md5_hexdigest(contents) ==
    CASE contents = Gif1 ->
           <<13, 8, 9, 7, 4, 6, 8, 8, 8, 13, 10, 2, 13, 9, 5, 1,
             0, 11, 6, 4, 10, 9, 15, 0, 3, 1, 14, 10, 14, 12, 13, 5>>
      [] contents = Gif2 ->
           <<3, 14, 10, 12, 13, 0, 1, 3, 2, 3, 1, 0, 14, 10, 4, 4,
             12, 10, 13, 7, 5, 6, 11, 3, 7, 8, 10, 3, 11, 12, 0, 7>>
      [] contents = Truncated ->
           <<14, 7, 1, 3, 2, 2, 15, 1, 10, 0, 12, 15, 3, 13, 2, 6,
             6, 3, 8, 14, 13, 0, 4, 2, 3, 1, 3, 8, 11, 10, 2, 1>>
      [] contents = Text ->
           <<5, 13, 4, 1, 4, 0, 2, 10, 11, 12, 4, 11, 2, 10, 7, 6,
             11, 9, 7, 1, 9, 13, 9, 1, 1, 0, 1, 7, 12, 5, 9, 2>>

\* Image.open(io.BytesIO(contents)): identifies the format from the header;
\* raises for bytes that are no image
ImageOpens(contents) == contents \in {Gif1, Gif2, Truncated}

\* loading the pixel data (np.array(image), image.resize) raises for a
\* truncated file
ImageLoads(contents) == contents \in {Gif1, Gif2}

Pictures == {c \in Contents : ImageOpens(c) /\ ImageLoads(c)}

\* ----------------------------------------------------------------- floats
Num(v) == [k |-> "num", v |-> v]
NaN    == [k |-> "nan", v |-> 0]
PInf   == [k |-> "inf", v |-> 1]
NInf   == [k |-> "inf", v |-> -1]

\* a < b on Python floats: every comparison with NaN is false
FLt(a, b) ==
    IF a.k = "nan" \/ b.k = "nan" THEN FALSE
    ELSE IF a.k = "inf" THEN a.v = -1 /\ ~(b.k = "inf" /\ b.v = -1)
    ELSE IF b.k = "inf" THEN b.v = 1
    ELSE a.v < b.v

\* min(a, b) of the builtin: b only when b < a
PyMin(a, b) == IF FLt(b, a) THEN b ELSE a

\* max(a, b) of the builtin: b only when b > a
PyMax(a, b) == IF FLt(a, b) THEN b ELSE a

\* the clamp without its upper limit
Clamp_NoUpper(x) == PyMax(Num(0), x)

\* max(0.0, min(5.0, days_remaining))
Clamp(x) == PyMax(Num(0), PyMin(Num(5000), x))

\* round(x, 2) on a value in thousandths: the result in hundredths, ties to
\* even; NaN and the infinities round to themselves
Round2(x) ==
    IF x.k # "num" THEN x
    ELSE LET q == x.v \div 10
             r == x.v % 10
         IN  Num(IF r > 5 \/ (r = 5 /\ q % 2 = 1) THEN q + 1 ELSE q)

\* int(hexdigits, 16) % 100, reduced digit by digit
RECURSIVE HexMod100(_, _)
HexMod100(digits, acc) ==
    IF digits = <<>> THEN acc
    ELSE HexMod100(Tail(digits), (acc * 16 + Head(digits)) % 100)

\* int(hashlib.md5(contents).hexdigest()[:8], 16) % 100
img_hash_mod(contents) == HexMod100(SubSeq(md5_hexdigest(contents), 1, 8), 0)

\* the demo value with the hash taken modulo 100 but divided by 25
demo_days_Div25(contents) == Num(2500 + img_hash_mod(contents) * 40)

\* days_remaining = 2.5 + (img_hash % 100) / 50.0, in thousandths
demo_days(contents) == Num(2500 + img_hash_mod(contents) * 20)

\* ------------------------------------------------------------- Keras model
Raise == [k |-> "raise", v |-> 0]

\* what model.predict(...)[0][0] gives for a picture: a float32 value that is
\* exact in binary (a multiple of 1/8), NaN, an infinity, or an exception
RawOutputs == <<Num(5125), Num(-125), Num(3375), NaN, PInf, Raise>>

\* the model artifacts that can sit at MODEL_PATH: each maps a picture to its
\* raw output
Weights ==
    {[c \in Pictures |-> IF c = Gif1 THEN RawOutputs[i]
                         ELSE RawOutputs[(i % Len(RawOutputs)) + 1]] :
        i \in {1, 3, 5}}

NoModel == [present |-> FALSE, predict |-> <<>>]
Keras(w) == [present |-> TRUE, predict |-> w]

\* preprocess_image: resize to IMG_SIZE, convert to RGB, scale, add the batch
\* dimension
preprocess_image(image) ==
    [shape |-> <<1, IMG_SIZE[1], IMG_SIZE[2], 3>>, of |-> image]

\* ------------------------------------------------------------------ state
VARIABLES
    phase,        \* position of lifespan: "init", "serving" (at yield), "stopped"
    model,        \* global model
    demo_mode,    \* global demo_mode
    DEMO_MODE,    \* os.getenv("DEMO_MODE", "false").lower() == "true"
    pathExists,   \* os.path.exists(MODEL_PATH)
    startup,      \* the path the startup try block took
    loads,        \* number of times the startup load step has run
    req,          \* the requests being handled or answered, by slot
    writes        \* assignments to the globals so far, by the code that made them

vars == <<phase, model, demo_mode, DEMO_MODE, pathExists, startup, loads,
          req, writes>>

NoFile == [content_type |-> NoneStr, contents |-> <<>>]
NoResp == [status |-> 0, body |-> <<>>]
Idle   == [pc |-> "idle", path |-> "", file |-> NoFile, resp |-> NoResp,
           trace |-> <<>>]

\* an UploadFile: the declared content type and the bytes
Files == [content_type : ContentTypes, contents : Contents]

\* ---------------------------------------------------------------- lifespan
\* the places where the startup try block can raise
StartupFaults == {"none", "print_missing", "load_model", "report"}

\* the startup that forgets demo_mode = True when the artifact is missing
lifespan_startup_NoFlag(exists, fault, w) ==
    IF ~exists
    THEN [model |-> NoModel, demo_mode |-> FALSE, path |-> "missing"]
    ELSE IF fault = "load_model"
    THEN [model |-> NoModel, demo_mode |-> TRUE, path |-> "load_raised"]
    ELSE IF fault = "report"
    THEN [model |-> Keras(w), demo_mode |-> TRUE, path |-> "report_raised"]
    ELSE [model |-> Keras(w), demo_mode |-> FALSE, path |-> "loaded"]

\* the try / except of lifespan, from the globals' initial values: exists is
\* os.path.exists(MODEL_PATH), w the artifact at the path, fault the statement
\* that raises (if any)
lifespan_startup(exists, fault, w) ==
    IF ~exists
    THEN \* demo_mode = True, directly or through the except clause
         [model |-> NoModel, demo_mode |-> TRUE, path |-> "missing"]
    ELSE IF fault = "load_model"
    THEN \* keras.models.load_model raises: model is not assigned
         [model |-> NoModel, demo_mode |-> TRUE, path |-> "load_raised"]
    ELSE IF fault = "report"
    THEN \* model is assigned, then the report of its shapes raises
         [model |-> Keras(w), demo_mode |-> TRUE, path |-> "report_raised"]
    ELSE [model |-> Keras(w), demo_mode |-> FALSE, path |-> "loaded"]

\* the startup whose except clause also resets model
startup_writes_Reset(exists, fault) ==
    [model |-> IF exists /\ fault = "report" THEN 2
               ELSE IF exists THEN 1 ELSE 0,
     demo_mode |-> 1]

\* the assignments the startup try / except executes: model = ... only when
\* load_model returns (line 44), demo_mode = ... once, at line 42, 48 or 52
startup_writes(exists, fault) ==
    [model |-> IF exists /\ fault # "load_model" THEN 1 ELSE 0,
     demo_mode |-> 1]

\* the assignments of the code after yield: model = None alone
shutdown_writes == [model |-> 1, demo_mode |-> 0]

NoWrites == [model |-> 0, demo_mode |-> 0]

Startup ==
    /\ phase = "init"
    /\ \E fault \in StartupFaults, w \in Weights :
          /\ IF pathExists THEN fault \in {"none", "load_model", "report"}
                           ELSE fault \in {"none", "print_missing"}
          /\ LET s == lifespan_startup(pathExists, fault, w)
             IN  /\ model' = s.model
                 /\ demo_mode' = s.demo_mode
                 /\ startup' = s.path
          /\ writes' = [writes EXCEPT
                           !.startup = startup_writes(pathExists, fault)]
    /\ loads' = loads + 1
    /\ phase' = "serving"
    /\ UNCHANGED <<DEMO_MODE, pathExists, req>>

\* the shutdown that leaves the model in place
lifespan_shutdown_Keep(m) == m

\* the code after yield: model = None
lifespan_shutdown(m) == NoModel

\* the server resumes lifespan after yield once every request is answered
Shutdown ==
    /\ phase = "serving"
    /\ \A r \in Reqs : req[r].pc = "idle"
    /\ model' = lifespan_shutdown(model)
    /\ phase' = "stopped"
    /\ writes' = [writes EXCEPT !.shutdown = shutdown_writes]
    /\ UNCHANGED <<demo_mode, DEMO_MODE, pathExists, startup, loads, req>>

\* ------------------------------------------------------------ GET handlers
root_response(m) ==
    [status |-> 200,
     body |-> [status |-> "healthy",
               message |-> "Freshness Predictor API is running",
               model_loaded |-> m.present]]

health_response(m, dm) ==
    [status |-> 200,
     body |-> [status |-> "healthy",
               model_loaded |-> m.present,
               demo_mode |-> dm,
               model_path |-> IF m.present THEN "MODEL_PATH" ELSE "null"]]

\* GET / arrives: the handler has no await and runs to its end
root(r) ==
    /\ phase = "serving"
    /\ req[r].pc = "idle"
    /\ req' = [req EXCEPT ![r] =
                 [pc |-> "done", path |-> "/", file |-> NoFile,
                  resp |-> root_response(model), trace |-> <<>>]]
    /\ UNCHANGED <<phase, model, demo_mode, DEMO_MODE, pathExists, startup,
                   loads, writes>>

\* GET /health arrives: the handler has no await and runs to its end
health(r) ==
    /\ phase = "serving"
    /\ req[r].pc = "idle"
    /\ req' = [req EXCEPT ![r] =
                 [pc |-> "done", path |-> "/health", file |-> NoFile,
                  resp |-> health_response(model, demo_mode), trace |-> <<>>]]
    /\ UNCHANGED <<phase, model, demo_mode, DEMO_MODE, pathExists, startup,
                   loads, writes>>

\* ---------------------------------------------------------------- /predict
InvalidInput ==
    [status |-> 400,
     body |-> [detail |-> "File must be an image (JPEG, PNG, etc.)"]]

ProcessingError ==
    [status |-> 500, body |-> [detail |-> "Error processing image: ..."]]

\* an exception that leaves the handler: the server's own 500 answer
ServerError ==
    [status |-> 500, body |-> [text |-> "Internal Server Error"]]

\* JSONResponse(content=...): NaN and the infinities are not JSON
success(days, demo) ==
    IF days.k # "num"
    THEN [resp |-> ProcessingError, ok |-> FALSE]
    ELSE [resp |->
            [status |-> 200,
             body |-> IF demo
                      THEN [days_remaining |-> days.v, status |-> "success",
                            demo_mode |-> TRUE, message |-> "Demo mode"]
                      ELSE [days_remaining |-> days.v, status |-> "success",
                            demo_mode |-> FALSE]],
          ok |-> TRUE]

\* the demo branch of predict, after Image.open
predict_demo(contents) ==
    IF ~ImageLoads(contents)
    THEN [resp |-> ProcessingError,
          trace |-> <<"read", "Image.open", "np.array">>]
    ELSE [resp |-> success(Round2(Clamp(demo_days(contents))), TRUE).resp,
          trace |-> <<"read", "Image.open", "np.array", "md5">>]

\* the real branch of predict, after Image.open
predict_real(contents, m) ==
    IF ~ImageLoads(contents)
    THEN [resp |-> ProcessingError,
          trace |-> <<"read", "Image.open", "preprocess_image">>]
    ELSE LET tensor == preprocess_image(contents)
             out == m.predict[tensor.of]
         IN  IF out.k = "raise"
             THEN [resp |-> ProcessingError,
                   trace |-> <<"read", "Image.open", "preprocess_image",
                               "model.predict">>]
             ELSE [resp |-> success(Round2(Clamp(out)), FALSE).resp,
                   trace |-> <<"read", "Image.open", "preprocess_image",
                               "model.predict">>]

\* the try block with the demo value taken from the declared content type as
\* well as from the bytes
predict_body_TypeSalted(file, m, dm) ==
    IF ~ImageOpens(file.contents)
    THEN [resp |-> ProcessingError, trace |-> <<"read", "Image.open">>]
    ELSE IF dm \/ ~m.present
    THEN IF ~ImageLoads(file.contents)
         THEN predict_demo(file.contents)
         ELSE [resp |-> success(Round2(Clamp(
                            Num(demo_days(file.contents).v
                                + 10 * (Len(file.content_type.str) % 2)))),
                          TRUE).resp,
               trace |-> <<"read", "Image.open", "np.array", "md5">>]
    ELSE predict_real(file.contents, m)

\* the try block of predict from file.read() on
predict_body(file, m, dm) ==
    IF ~ImageOpens(file.contents)
    THEN [resp |-> ProcessingError, trace |-> <<"read", "Image.open">>]
    ELSE IF dm \/ ~m.present
    THEN predict_demo(file.contents)
    ELSE predict_real(file.contents, m)

\* the content type check of predict, up to the await of file.read()
validate(file) ==
    IF file.content_type.none THEN "AttributeError"
    ELSE IF ~startswith(file.content_type.str, ImagePrefix) THEN "400"
    ELSE "ok"

\* POST /predict arrives: the handler runs up to await file.read()
PredictBegin(r) ==
    /\ phase = "serving"
    /\ req[r].pc = "idle"
    /\ \E file \in Files :
          LET v == validate(file)
          IN  req' = [req EXCEPT ![r] =
                 IF v = "AttributeError"
                 THEN [pc |-> "done", path |-> "/predict", file |-> file,
                       resp |-> ServerError,
                       trace |-> <<>>]
                 ELSE IF v = "400"
                 THEN [pc |-> "done", path |-> "/predict", file |-> file,
                       resp |-> InvalidInput,
                       trace |-> <<>>]
                 ELSE [pc |-> "reading", path |-> "/predict", file |-> file,
                       resp |-> NoResp,
                       trace |-> <<>>]]
    /\ UNCHANGED <<phase, model, demo_mode, DEMO_MODE, pathExists, startup,
                   loads, writes>>

\* the handler that switches the service to demo mode when a request fails
PredictResume_FlipsMode(r) ==
    /\ phase = "serving"
    /\ req[r].pc = "reading"
    /\ LET out == predict_body(req[r].file, model, demo_mode)
       IN  /\ req' = [req EXCEPT ![r] =
                        [pc |-> "done", path |-> "/predict", file |-> req[r].file,
                         resp |-> out.resp, trace |-> out.trace]]
           /\ demo_mode' = (demo_mode \/ out.resp.status = 500)
    /\ UNCHANGED <<phase, model, DEMO_MODE, pathExists, startup, loads,
                   writes>>

\* the handler that keeps the upload in a variable shared by all requests:
\* it resumes with the upload of the request that arrived in the highest slot
PredictResume_SharedUpload(r) ==
    /\ phase = "serving"
    /\ req[r].pc = "reading"
    /\ LET reading == {r2 \in Reqs : req[r2].pc = "reading"}
           last == CHOOSE r2 \in reading : \A r3 \in reading : r2 >= r3
           out == predict_body(req[last].file, model, demo_mode)
       IN  req' = [req EXCEPT ![r] =
                     [pc |-> "done", path |-> "/predict", file |-> req[r].file,
                      resp |-> out.resp, trace |-> out.trace]]
    /\ UNCHANGED <<phase, model, demo_mode, DEMO_MODE, pathExists, startup,
                   loads, writes>>

\* file.read() returns: the handler runs to its end
PredictResume(r) ==
    /\ phase = "serving"
    /\ req[r].pc = "reading"
    /\ LET out == predict_body(req[r].file, model, demo_mode)
       IN  req' = [req EXCEPT ![r] =
                     [pc |-> "done", path |-> "/predict", file |-> req[r].file,
                      resp |-> out.resp, trace |-> out.trace]]
    /\ UNCHANGED <<phase, model, demo_mode, DEMO_MODE, pathExists, startup,
                   loads, writes>>

\* predict run from its first line to its last with no other request about
handled_alone(file, m, dm) ==
    LET v == validate(file)
    IN  IF v = "AttributeError" THEN ServerError
        ELSE IF v = "400" THEN InvalidInput
        ELSE predict_body(file, m, dm).resp

\* the response is sent and the request discarded
Respond(r) ==
    /\ req[r].pc = "done"
    /\ req' = [req EXCEPT ![r] = Idle]
    /\ UNCHANGED <<phase, model, demo_mode, DEMO_MODE, pathExists, startup,
                   loads, writes>>

\* ----------------------------------------------------------- specification
Init ==
    /\ phase = "init"
    /\ model = NoModel
    /\ demo_mode = FALSE
    /\ DEMO_MODE \in BOOLEAN
    /\ pathExists \in BOOLEAN
    /\ startup = "none"
    /\ loads = 0
    /\ req = [r \in Reqs |-> Idle]
    /\ writes = [startup |-> NoWrites, shutdown |-> NoWrites,
                 handlers |-> NoWrites]

Next ==
    \/ Startup
    \/ Shutdown
    \/ \E r \in Reqs : root(r)
    \/ \E r \in Reqs : health(r)
    \/ \E r \in Reqs : PredictBegin(r)
    \/ \E r \in Reqs : PredictResume(r)
    \/ \E r \in Reqs : Respond(r)

Spec == Init /\ [][Next]_vars

\* ------------------------------------------------------------------ claims
Done(r) == req[r].pc = "done" /\ req[r].path = "/predict"
Ok(r) == Done(r) /\ req[r].resp.status = 200
DemoOk(r) == Ok(r) /\ req[r].resp.body.demo_mode
RealOk(r) == Ok(r) /\ ~req[r].resp.body.demo_mode
DeclaresImage(file) ==
    ~file.content_type.none /\ startswith(file.content_type.str, ImagePrefix)

\* C1: every successful /predict response, demo or real, carries a
\* days_remaining between 0.0 and 5.0 inclusive (0..500 hundredths)
C1_DaysInRange ==
    \A r \in Reqs :
        Ok(r) => /\ req[r].resp.body.days_remaining >= 0
                 /\ req[r].resp.body.days_remaining <= 500

\* a real-mode success whose raw model output lay above 5.0 and one whose raw
\* output lay below 0.0
C1_Witness ==
    \E r1, r2 \in Reqs :
        /\ RealOk(r1) /\ RealOk(r2) /\ model.present
        /\ FLt(Num(5000), model.predict[req[r1].file.contents])
        /\ req[r1].resp.body.days_remaining = 500
        /\ FLt(model.predict[req[r2].file.contents], Num(0))
        /\ req[r2].resp.body.days_remaining = 0

\* C2: when the path exists and the load step raises, the service is in demo
\* mode with the model absent; while requests are served the model is present
\* exactly when the demo flag is off
C2_NoHalfLoadedState ==
    phase = "serving" =>
        /\ model.present <=> ~demo_mode
        /\ startup \in {"load_raised", "report_raised"} =>
              (demo_mode /\ ~model.present)

\* C3: with the DEMO_MODE flag set the service runs in demo mode and every
\* successful /predict response carries demo_mode true
C3_ForceFlagOverrides ==
    DEMO_MODE =>
        /\ phase = "serving" => demo_mode
        /\ \A r \in Reqs : Ok(r) => req[r].resp.body.demo_mode

\* C4: a request whose content type does not start with "image/" ends in the
\* InvalidInput error (400), with nothing read, decoded or predicted
C4_NonImageIs400 ==
    \A r \in Reqs :
        (req[r].path = "/predict" /\ ~DeclaresImage(req[r].file)) =>
            /\ Done(r)
            /\ req[r].resp = InvalidInput
            /\ req[r].trace = <<>>

\* C5: after a startup that found no artifact, demo_mode is true and the model
\* absent, /health says so, and every successful /predict response carries
\* demo_mode true
C5_MissingArtifactIsDemo ==
    startup = "missing" =>
        /\ demo_mode /\ ~model.present
        /\ \A r \in Reqs :
              req[r].path = "/health" =>
                 /\ req[r].resp.body.demo_mode = TRUE
                 /\ req[r].resp.body.model_loaded = FALSE
                 /\ req[r].resp.body.model_path = "null"
        /\ \A r \in Reqs : Ok(r) => req[r].resp.body.demo_mode

C5_Witness ==
    /\ startup = "missing"
    /\ phase = "serving"
    /\ \E r1, r2 \in Reqs : req[r1].path = "/health" /\ Ok(r2)

\* C6: two successful demo responses to the same bytes carry the same
\* days_remaining, whatever their declared content types
C6_DemoIsFunctionOfBytes ==
    \A r1, r2 \in Reqs :
        (DemoOk(r1) /\ DemoOk(r2)
            /\ req[r1].file.contents = req[r2].file.contents) =>
        req[r1].resp.body.days_remaining = req[r2].resp.body.days_remaining

\* the same bytes answered twice under different content types, and other
\* bytes answered differently
C6_Witness ==
    /\ \E r1, r2 \in Reqs :
          /\ DemoOk(r1) /\ DemoOk(r2)
          /\ req[r1].file.contents = req[r2].file.contents
          /\ req[r1].file.content_type # req[r2].file.content_type
    /\ demo_days(Gif1) # demo_days(Gif2)

\* C7: a request ends in exactly one of 200 success, 400 InvalidInput and 500
\* ProcessingError; with an image content type every failure is the
\* ProcessingError
C7_ThreeOutcomes ==
    \A r \in Reqs :
        Done(r) =>
            /\ \/ Ok(r) /\ req[r].resp.body.status = "success"
               \/ req[r].resp = InvalidInput
               \/ req[r].resp = ProcessingError
            /\ (DeclaresImage(req[r].file) /\ ~Ok(r)) =>
                  req[r].resp = ProcessingError

\* int(hexdigest[:8], 16) % 100 from the two 16-bit halves of the number
HalfValue(d) == d[1] * 4096 + d[2] * 256 + d[3] * 16 + d[4]
HashMod100(contents) ==
    LET d == md5_hexdigest(contents)
    IN  (((HalfValue(SubSeq(d, 1, 4)) % 100) * (65536 % 100))
            + HalfValue(SubSeq(d, 5, 8))) % 100

\* C8: a successful demo response carries 2.5 + (h mod 100) / 50 to two
\* decimals, which lies between 2.5 and 4.5 and which the clamp leaves alone
C8_DemoFormula ==
    \A r \in Reqs :
        DemoOk(r) =>
            /\ req[r].resp.body.days_remaining
                  = 250 + 2 * HashMod100(req[r].file.contents)
            /\ req[r].resp.body.days_remaining >= 250
            /\ req[r].resp.body.days_remaining <= 450
            /\ Clamp(demo_days(req[r].file.contents))
                  = demo_days(req[r].file.contents)

\* the 1x1 GIF whose digest starts d8974688 is answered with 3.46
C8_Witness ==
    \E r \in Reqs :
        /\ DemoOk(r)
        /\ req[r].file.contents = Gif1
        /\ req[r].resp.body.days_remaining = 346

\* C9: after shutdown the model is absent, whatever startup did, and the load
\* step has run once and never again
C9_ShutdownReleases ==
    /\ loads <= 1
    /\ phase = "stopped" => (~model.present /\ loads = 1)

\* shutdown after a startup that had assigned the model
C9_Witness ==
    /\ phase = "stopped"
    /\ startup \in {"loaded", "report_raised"}
    /\ loads = 1

\* C10: between startup and shutdown no step changes model or demo_mode
C10_HandlersKeepGlobals ==
    [][(phase = "serving" /\ phase' = "serving") =>
          (model' = model /\ demo_mode' = demo_mode)]_vars

\* a failed request (400 and 500) answered next to a successful one
C10_Witness ==
    /\ phase = "serving"
    /\ \E r1, r2 \in Reqs :
          /\ Done(r1) /\ req[r1].resp.status = 500
          /\ Ok(r2)

\* C11: whatever the interleaving of the /predict handlers, each answered
\* request carries the answer (status, days_remaining, demo_mode) it gets when
\* handled alone in the same mode, and a step of one request leaves the upload
\* and the answer of every other request as they were
C11_ConcurrentAsAlone ==
    /\ [](\A r \in Reqs :
            Done(r) =>
               req[r].resp = handled_alone(req[r].file, model, demo_mode))
    /\ [][\A r1, r2 \in Reqs :
            (r1 # r2 /\ req'[r1] # req[r1]) => req'[r2] = req[r2]]_vars
    /\ [][\A r \in Reqs :
            req[r].pc = "reading" => req'[r].file = req[r].file]_vars

\* one request answered successfully while another, with other bytes, is
\* suspended in file.read()
C11_Witness ==
    \E r1, r2 \in Reqs :
        /\ Ok(r1)
        /\ req[r2].pc = "reading"
        /\ req[r2].file.contents \in Pictures
        /\ req[r2].file.contents # req[r1].file.contents

\* C12 as stated: on every startup path model and demo_mode are each written
\* exactly once by the startup hook and exactly once by the shutdown hook, and
\* never by a handler
C12_EachWrittenOncePerHook ==
    /\ writes.handlers = NoWrites
    /\ phase # "init" =>
          (writes.startup.model = 1 /\ writes.startup.demo_mode = 1)
    /\ phase = "stopped" =>
          (writes.shutdown.model = 1 /\ writes.shutdown.demo_mode = 1)

\* C12: the startup hook writes demo_mode exactly once and model at most once
\* (once when load_model returns, not at all when the artifact is missing or
\* load_model raises); the shutdown hook writes model exactly once and never
\* demo_mode; no handler writes either
C12_WriteCounts ==
    /\ writes.handlers = NoWrites
    /\ phase = "init" => writes.startup = NoWrites
    /\ phase # "init" =>
          /\ writes.startup.demo_mode = 1
          /\ writes.startup.model =
                (IF startup \in {"loaded", "report_raised"} THEN 1 ELSE 0)
    /\ phase # "stopped" => writes.shutdown = NoWrites
    /\ phase = "stopped" =>
          (writes.shutdown.model = 1 /\ writes.shutdown.demo_mode = 0)

\* a whole lifetime, startup to shutdown, in which startup never assigned
\* model and shutdown assigned it once
C12_Witness ==
    /\ phase = "stopped"
    /\ writes.startup.model = 0
    /\ writes.shutdown.model = 1

====
